---- MODULE Spec2Model ----
(***************************************************************************)
(* experiments/exp10/analyze.py : analysis of a CMA-ES optimisation log.   *)
(*                                                                         *)
(* The script is one straight-line batch run over a data frame read from   *)
(* optimize_log.csv.  The model follows the script section by section:     *)
(* one action per numbered section of the script, and pc is the section    *)
(* the run is about to execute.                                            *)
(*                                                                         *)
(* Numbers.  Fitness values are integers.  The registry tables BOUNDS and  *)
(* DEFAULTS are held in thousandths (0.05 is 50).  A parameter value x of  *)
(* column p is held as its position k on a grid over the declared range,   *)
(*     x = lo + k * (hi - lo) / Grid,                                      *)
(* (k < 0 or k > Grid is a value outside the bounds).  Every registry      *)
(* entry has hi > lo, and the statistics the script takes of a column are  *)
(* compared with lo, hi and hi - lo only, so each comparison of the script *)
(* is written as the exact integer comparison it is equivalent to under    *)
(* this change of variable.  Arithmetic is exact: floating-point rounding  *)
(* is not modelled.  A NaN is held explicitly (a nan flag).                *)
(*                                                                         *)
(* Left out: the rolling means and the Pearson coefficients (they feed the *)
(* charts and the correlation table only and decide no label), and the     *)
(* contents of the charts; a chart is the name of the file it is saved as. *)
(***************************************************************************)
EXTENDS Integers, Sequences, FiniteSets, TLC

VARIABLES
    df,            \* the data frame, rows in file order: [eval, fitness, par]
    param_cols,    \* the columns of the file other than eval / fitness
    pc,            \* the section about to run, "done" or "failed"
    error,         \* the exception that ended the run, "none" otherwise
    saved,         \* the charts written so far
    printed,       \* the report sections printed so far
    best_so_far,   \* section 1: cumulative minimum of fitness
    likely_hit_cap,\* section 2: the column df['likely_hit_cap']
    conv_df,       \* section 3: one row per classified parameter
    top_df,        \* section 4: index labels of df.nsmallest(top_n, 'fitness')
    new_plotted,   \* section 5: the NEW_PARAMS panels drawn
    conv_report,   \* report section 1: checkpoints, halves, verdict
    surv_report,   \* report section 2: the four "quartile" lines
    param_report,  \* report section 3: the parameters grouped by status
    new_report,    \* report section 5: one entry per new parameter
    best_report    \* report section 6: the best configuration

reports == << conv_report, surv_report, param_report, new_report, best_report >>

vars == << df, param_cols, pc, error, saved, printed, best_so_far,
           likely_hit_cap, conv_df, top_df, new_plotted, reports >>

-----------------------------------------------------------------------------
(* Program constants *)

MAX_TICKS == 3000000
TAIL_N == 20
HALF_N == 100
QUARTER_N == 50
TOP_PCT == 20
\* bound_threshold = 0.05 * rng, in hundredths of the range
BOUND_PCT == 5
\* norm_std < 0.10 and norm_std > 0.20, in tenths of the range
CONVERGED_TENTHS == 1
EXPLORING_TENTHS == 2
\* abs(improvement) < abs(first_half_best) * 0.02, in hundredths
VERDICT_PCT == 2

\* MAX_TICKS * 1.2
MAX_TICKS_GENEROUS == (MAX_TICKS * 12) \div 10

(* Bounds of the model *)

\* Resolution of the grid a parameter value is placed on.
Grid == 20
\* Every log length up to SmallLen is tried, and the lengths around the
\* script's hard-coded counts up to MaxLen.
SmallLen == 6
MaxLen == 201

-----------------------------------------------------------------------------
(* The parameter registry, in thousandths *)

BOUNDS ==
    [ prey_move_cost        |-> << 50, 250 >>,
      pred_move_cost        |-> << 10, 80 >>,
      pred_bite_reward      |-> << 400, 800 >>,
      pred_digest_time      |-> << 200, 3000 >>,
      pred_repro_thresh     |-> << 500, 950 >>,
      prey_cooldown         |-> << 4000, 20000 >>,
      pred_cooldown         |-> << 6000, 20000 >>,
      parent_energy_split   |-> << 400, 700 >>,
      spawn_offset          |-> << 5000, 30000 >>,
      heading_jitter        |-> << 0, 1000 >>,
      pred_density_k        |-> << 10000, 600000 >>,
      newborn_hunt_cooldown |-> << 500, 5000 >>,
      refugia_strength      |-> << 500, 1500 >>,
      part_spawn_rate       |-> << 20000, 300000 >>,
      part_initial_mass     |-> << 2, 50 >>,
      part_deposit_rate     |-> << 500, 5000 >>,
      part_pickup_rate      |-> << 100, 3000 >>,
      part_cell_capacity    |-> << 300, 2000 >>,
      detritus_fraction     |-> << 0, 300 >>,
      carcass_fraction      |-> << 300, 900 >>,
      detritus_decay_rate   |-> << 10, 200 >>,
      detritus_decay_eff    |-> << 300, 800 >>,
      grazing_diet_cap      |-> << 150, 500 >>,
      hunting_diet_floor    |-> << 500, 850 >>,
      prey_density_k        |-> << 50000, 500000 >> ]

DEFAULTS ==
    [ prey_move_cost        |-> 120,
      pred_move_cost        |-> 25,
      pred_bite_reward      |-> 500,
      pred_digest_time      |-> 800,
      pred_repro_thresh     |-> 850,
      prey_cooldown         |-> 8000,
      pred_cooldown         |-> 12000,
      parent_energy_split   |-> 550,
      spawn_offset          |-> 15000,
      heading_jitter        |-> 250,
      pred_density_k        |-> 0,
      newborn_hunt_cooldown |-> 2000,
      refugia_strength      |-> 1000,
      part_spawn_rate       |-> 100000,
      part_initial_mass     |-> 10,
      part_deposit_rate     |-> 2000,
      part_pickup_rate      |-> 500,
      part_cell_capacity    |-> 1000,
      detritus_fraction     |-> 100,
      carcass_fraction      |-> 700,
      detritus_decay_rate   |-> 50,
      detritus_decay_eff    |-> 500,
      grazing_diet_cap      |-> 300,
      hunting_diet_floor    |-> 700,
      prey_density_k        |-> 200000 ]

NEW_PARAMS ==
    << "detritus_fraction", "carcass_fraction", "detritus_decay_rate",
       "detritus_decay_eff", "grazing_diet_cap", "hunting_diet_floor",
       "prey_density_k" >>

-----------------------------------------------------------------------------
(* Helpers: sequences, slices, aggregates *)

Range(s) == { s[i] : i \in DOMAIN s }

MinI(a, b) == IF a <= b THEN a ELSE b
MaxI(a, b) == IF a >= b THEN a ELSE b
Abs(x) == IF x < 0 THEN -x ELSE x

\* Python's s[a:b] for 0 <= a, 0 <= b, as the 1-based positions it keeps.
ISliceIdx(n, a, b) == { i \in 1..n : a < i /\ i <= b }

\* df.head(k) and df.tail(k), k >= 0, as the positions they keep.
HeadIdx(n, k) == 1..MinI(k, n)
TailIdx(n, k) == (MaxI(n - k, 0) + 1)..n

\* df.iloc[-a:-b] for a > b > 0, as the positions it keeps.
NegSliceIdx(n, a, b) == { i \in 1..n : MaxI(n - a, 0) < i /\ i <= n - b }

Fitness(d) == [ i \in DOMAIN d |-> d[i].fitness ]

\* Series.min() over the positions I: NaN on an empty selection.
SeriesMin(s, I) ==
    IF I = {} THEN [ nan |-> TRUE, v |-> 0 ]
    ELSE LET V == { s[i] : i \in I }
         IN  [ nan |-> FALSE, v |-> CHOOSE x \in V : \A y \in V : x <= y ]

\* The first position of a..b that holds m, one of them holding it.
RECURSIVE FirstAt(_, _, _, _)
FirstAt(s, m, a, b) ==
    IF a = b THEN a
    ELSE LET mid == (a + b) \div 2
         IN  IF \E i \in a..mid : s[i] = m
             THEN FirstAt(s, m, a, mid)
             ELSE FirstAt(s, m, mid + 1, b)

\* Series.idxmin(): the label of the first occurrence of the minimum.
IdxMin(s) == FirstAt(s, SeriesMin(s, DOMAIN s).v, 1, Len(s))

RECURSIVE SumOver(_, _)
SumOver(s, I) ==
    IF I = {} THEN 0
    ELSE LET i == CHOOSE j \in I : TRUE
         IN  s[i] + SumOver(s, I \ {i})

\* Series.cummin(): the running minimum, carried from each block of the
\* series into the block after it.
RECURSIVE CumMinRange(_, _, _)
CumMinRange(s, a, b) ==
    IF a = b THEN << s[a] >>
    ELSE LET m == (a + b) \div 2
             left == CumMinRange(s, a, m)
             right == CumMinRange(s, m + 1, b)
             carry == left[Len(left)]
         IN  left \o [ j \in 1..Len(right) |-> MinI(carry, right[j]) ]

\* Each element the smaller of the value and the value before it only.
CumMin_Pairwise(s) ==
    [ i \in 1..Len(s) |-> IF i = 1 THEN s[1] ELSE MinI(s[i - 1], s[i]) ]

CumMin(s) == IF Len(s) = 0 THEN << >> ELSE CumMinRange(s, 1, Len(s))

-----------------------------------------------------------------------------
(* The input: optimize_log.csv as read by pd.read_csv *)

\* Log lengths tried.
Lens ==
    (1..SmallLen)
    \cup { n \in { TAIL_N - 1, TAIL_N, TAIL_N + 1, QUARTER_N, HALF_N,
                   2 * HALF_N - 1, 2 * HALF_N } : n <= MaxLen }
    \cup { MaxLen }

TailLens == { n \in Lens : n <= 3 \/ (TAIL_N - 1 <= n /\ n <= TAIL_N + 1) }

\* A fitness series is a base value with up to two dips: the evaluation at
\* position d1 scored v1 and the one at d2 scored v2.
DipPos(d, n) ==
    CASE d = "first"   -> 1
      [] d = "mid"     -> MaxI(1, n \div 2)
      [] d = "midnext" -> MinI(n, n \div 2 + 1)
      [] d = "last"    -> n

FitShapes ==
    [ base : { -100, 0, 100 },
      d1 : { "first", "mid" },
      v1 : { -MAX_TICKS, -102, 99 },
      d2 : { "midnext", "last" },
      v2 : { -MAX_TICKS_GENEROUS, -102, -101, -98 } ]

PlainFit == [ base |-> -100, d1 |-> "mid", v1 |-> -102, d2 |-> "last", v2 |-> -101 ]

FitnessAt(fs, e, n) ==
    IF e = DipPos(fs.d1, n) THEN fs.v1
    ELSE IF e = DipPos(fs.d2, n) THEN fs.v2
    ELSE fs.base

\* The order the rows of the file are in, as the eval number of each row.
Orders == { "asc", "desc", "rot" }

EvalAt(o, i, n) ==
    CASE o = "asc"  -> i
      [] o = "desc" -> n + 1 - i
      [] o = "rot"  -> (i % n) + 1

\* A parameter column either alternates between two grid positions or sits
\* at one position with a single spike at the last evaluation.
GridVals == { 0, 1, 2, Grid \div 4, Grid \div 2, Grid - 1, Grid }

ParamShapes == [ kind : { "alt", "spike" }, a : GridVals, b : GridVals ]

PlainPar == [ kind |-> "alt", a |-> Grid \div 4, b |-> Grid \div 2 ]

ParAt(ps, j, e, n) ==
    IF ps.kind = "alt"
    THEN IF (e + j) % 2 = 0 THEN ps.a ELSE ps.b
    ELSE IF e = n THEN ps.b ELSE ps.a

\* Header rows tried: the new parameters only, the whole registry, a registry
\* parameter without a column, a column without a registry entry.
RECURSIVE SeqOfSet(_)
SeqOfSet(S) ==
    IF S = {} THEN << >>
    ELSE LET x == CHOOSE y \in S : TRUE IN << x >> \o SeqOfSet(S \ {x})

ColSets ==
    { NEW_PARAMS,
      << "heading_jitter" >> \o NEW_PARAMS,
      SeqOfSet(DOMAIN BOUNDS),
      << "heading_jitter", "prey_move_cost" >>,
      SubSeq(NEW_PARAMS, 1, Len(NEW_PARAMS) - 1),
      << >>,
      NEW_PARAMS \o << "mutation_rate" >>,
      << "mutation_rate", "heading_jitter" >> }

ColIdx(cols, c) == CHOOSE j \in DOMAIN cols : cols[j] = c

ReadCsv(n, fs, o, cols, ps) ==
    [ i \in 1..n |->
        LET e == EvalAt(o, i, n)
        IN  [ eval    |-> e,
              fitness |-> FitnessAt(fs, e, n),
              par     |-> [ c \in Range(cols) |->
                              ParAt(ps, ColIdx(cols, c), e, n) ] ] ]

Init ==
    /\ \E n \in Lens, fs \in FitShapes, o \in Orders, cols \in ColSets,
          ps \in ParamShapes :
          /\ \/ /\ cols = NEW_PARAMS /\ ps = PlainPar
                /\ o = "asc" \/ n <= SmallLen \/ n \in TailLens
             \/ /\ n \in TailLens /\ fs = PlainFit /\ o = "asc"
                /\ cols \in { NEW_PARAMS, << "heading_jitter" >> \o NEW_PARAMS }
             \/ n <= SmallLen /\ fs = PlainFit /\ ps = PlainPar
          /\ df = ReadCsv(n, fs, o, cols, ps)
          /\ param_cols = cols
    /\ pc = "convergence_plot"
    /\ error = "none"
    /\ saved = {}
    /\ printed = << >>
    /\ best_so_far = << >>
    /\ likely_hit_cap = << >>
    /\ conv_df = << >>
    /\ top_df = << >>
    /\ new_plotted = << >>
    /\ conv_report = << >>
    /\ surv_report = << >>
    /\ param_report = << >>
    /\ new_report = << >>
    /\ best_report = << >>

-----------------------------------------------------------------------------
(* Section 1: convergence plot *)

ConvergencePlot ==
    /\ pc = "convergence_plot"
    /\ best_so_far' = CumMin(Fitness(df))
    /\ saved' = saved \cup { "convergence.png" }
    /\ pc' = "survival"
    /\ UNCHANGED << df, param_cols, error, printed, likely_hit_cap, conv_df,
                    top_df, new_plotted, reports >>

(* Section 2: survival analysis *)

\* df['likely_hit_cap'] = df['fitness'] <= -MAX_TICKS
LikelyHitCap(f) == f <= -MAX_TICKS

SurvivalAnalysis ==
    /\ pc = "survival"
    /\ likely_hit_cap' = [ i \in DOMAIN df |-> LikelyHitCap(df[i].fitness) ]
    /\ saved' = saved \cup { "survival.png" }
    /\ pc' = "param_convergence"
    /\ UNCHANGED << df, param_cols, error, printed, best_so_far, conv_df,
                    top_df, new_plotted, reports >>


(* Section 3: parameter convergence *)

Col(p, I) == [ i \in I |-> df[i].par[p] ]

\* last20[p].mean(): the mean grid position, as the fraction num / den.
Mean(p, I) == [ num |-> SumOver(Col(p, I), I), den |-> Cardinality(I) ]

\* last20[p].std(), the sample standard deviation (ddof = 1): NaN for a
\* single record.  Held as n and sq = sum over the window of (n*k - sum)^2,
\* so that std^2 = sq / (n^2 * (n - 1)) in grid steps.
Std(p, I) ==
    LET n == Cardinality(I)
        S == SumOver(Col(p, I), I)
    IN  [ nan |-> n < 2,
          n   |-> n,
          sq  |-> SumOver([ i \in I |-> (n * df[i].par[p] - S) * (n * df[i].par[p] - S) ], I) ]

\* norm_std = std_last20 / rng if rng > 0 else 0
NormStd(std, rng) ==
    IF rng > 0 THEN std ELSE [ nan |-> FALSE, n |-> 2, sq |-> 0 ]

\* norm_std < t/10 and norm_std > t/10; a comparison with NaN is False.
\* std / rng = sqrt(sq / (n^2 (n-1))) / Grid.
NormStdLt(ns, t) ==
    ~ns.nan /\ 100 * ns.sq < t * t * Grid * Grid * ns.n * ns.n * (ns.n - 1)
NormStdGt(ns, t) ==
    ~ns.nan /\ 100 * ns.sq > t * t * Grid * Grid * ns.n * ns.n * (ns.n - 1)

\* mean_last20 <= lo + bound_threshold, with mean_last20 = lo + rng * mean / Grid
\* and bound_threshold = rng * BOUND_PCT / 100, rng > 0.
HittingMin(mean) == 100 * mean.num <= BOUND_PCT * Grid * mean.den
\* mean_last20 >= hi - bound_threshold, with hi = lo + rng.
HittingMax(mean) == 100 * mean.num >= (100 - BOUND_PCT) * Grid * mean.den

BaseStatus(norm_std) ==
    IF NormStdLt(norm_std, CONVERGED_TENTHS) THEN "converged"
    ELSE IF NormStdGt(norm_std, EXPLORING_TENTHS) THEN "exploring"
    ELSE "narrowing"

\* The bound suffix added to a converged parameter only.
Status_ConvergedOnly(norm_std, mean) ==
    LET status == << BaseStatus(norm_std) >>
    IN  IF status[1] # "converged" THEN status
        ELSE IF HittingMin(mean) THEN Append(status, "hitting MIN")
        ELSE IF HittingMax(mean) THEN Append(status, "hitting MAX")
        ELSE status

\* status += ' (hitting MIN)' / ' (hitting MAX)': the status is the base word
\* followed by the suffix, when there is one.
Status(norm_std, mean) ==
    LET status == << BaseStatus(norm_std) >>
    IN  IF HittingMin(mean) THEN Append(status, "hitting MIN")
        ELSE IF HittingMax(mean) THEN Append(status, "hitting MAX")
        ELSE status

Last20 == TailIdx(Len(df), TAIL_N)

ConvRow(p, best_idx) ==
    LET lo == BOUNDS[p][1]
        hi == BOUNDS[p][2]
        rng == hi - lo
        mean_last20 == Mean(p, Last20)
        std_last20 == Std(p, Last20)
        norm_std == NormStd(std_last20, rng)
    IN  [ param       |-> p,
          min         |-> lo,
          max         |-> hi,
          best        |-> df[best_idx].par[p],
          last20_mean |-> mean_last20,
          last20_std  |-> std_last20,
          norm_std    |-> norm_std,
          status      |-> Status(norm_std, mean_last20) ]

UnknownCols == { c \in Range(param_cols) : c \notin DOMAIN BOUNDS }

ParameterConvergence ==
    /\ pc = "param_convergence"
    /\ UnknownCols = {}
    /\ LET best_idx == IdxMin(Fitness(df))
       IN  conv_df' = [ j \in DOMAIN param_cols |-> ConvRow(param_cols[j], best_idx) ]
    /\ saved' = saved \cup { "parameter_convergence.png" }
    /\ pc' = "correlations"
    /\ UNCHANGED << df, param_cols, error, printed, best_so_far,
                    likely_hit_cap, top_df, new_plotted, reports >>

\* lo, hi = BOUNDS[p] raises KeyError at the first column the registry does
\* not hold; conv_df is never built and nothing of section 3 is saved.
ParameterConvergenceKeyError ==
    /\ pc = "param_convergence"
    /\ UnknownCols # {}
    /\ error' = "KeyError"
    /\ pc' = "failed"
    /\ UNCHANGED << df, param_cols, saved, printed, best_so_far,
                    likely_hit_cap, conv_df, top_df, new_plotted, reports >>

(* Section 4: correlations with fitness *)

\* The count rounded up instead of truncated.
TopN_Ceil(n) == MaxI(1, (n * TOP_PCT + 99) \div 100)

\* top_n = max(1, int(len(df) * top_frac))
TopN(n) == MaxI(1, (n * TOP_PCT) \div 100)

\* df.nsmallest(k, 'fitness'), keep = 'first': the k rows of smallest fitness
\* in ascending order, rows of equal fitness in the order of the frame.
RECURSIVE NSmallest(_, _, _)
NSmallest(s, I, k) ==
    IF k = 0 \/ I = {} THEN << >>
    ELSE LET m == SeriesMin(s, I).v
             i == CHOOSE j \in I : s[j] = m /\ \A h \in I : s[h] = m => j <= h
         IN  << i >> \o NSmallest(s, I \ {i}, k - 1)

Correlations ==
    /\ pc = "correlations"
    /\ top_df' = NSmallest(Fitness(df), DOMAIN df, TopN(Len(df)))
    /\ saved' = saved \cup { "correlations.png" }
    /\ pc' = "new_params"
    /\ UNCHANGED << df, param_cols, error, printed, best_so_far,
                    likely_hit_cap, conv_df, new_plotted, reports >>

(* Section 5: the new exp10 parameters *)

MissingNew == { j \in DOMAIN NEW_PARAMS : NEW_PARAMS[j] \notin Range(param_cols) }

NewParams ==
    /\ pc = "new_params"
    /\ MissingNew = {}
    /\ new_plotted' = NEW_PARAMS
    /\ saved' = saved \cup { "new_params.png" }
    /\ pc' = "report_convergence"
    /\ UNCHANGED << df, param_cols, error, printed, best_so_far,
                    likely_hit_cap, conv_df, top_df, reports >>

\* df[p] raises KeyError at the first new parameter the file has no column
\* for; the panels before it are drawn and the figure is not saved.
NewParamsKeyError ==
    /\ pc = "new_params"
    /\ MissingNew # {}
    /\ LET first == CHOOSE j \in MissingNew : \A h \in MissingNew : j <= h
       IN  new_plotted' = SubSeq(NEW_PARAMS, 1, first - 1)
    /\ error' = "KeyError"
    /\ pc' = "failed"
    /\ UNCHANGED << df, param_cols, saved, printed, best_so_far,
                    likely_hit_cap, conv_df, top_df, reports >>


-----------------------------------------------------------------------------
(* The printed report *)

\* The evaluation counts of the "Best-so-far at eval N" lines.
CHECKPOINTS == << 50, 100, 150, 200 >>

\* The lines print head(50), head(100), head(150) and, for 200, the minimum
\* of the whole column.
BestSoFarAt(c) ==
    IF c = CHECKPOINTS[Len(CHECKPOINTS)]
    THEN SeriesMin(Fitness(df), DOMAIN df)
    ELSE SeriesMin(Fitness(df), HeadIdx(Len(df), c))

first_half_best == SeriesMin(Fitness(df), HeadIdx(Len(df), HALF_N))
second_half_best == SeriesMin(Fitness(df), TailIdx(Len(df), HALF_N))

\* The sign of the improvement tested before the 2% band.
VERDICT_SignFirst(f1, improvement) ==
    IF improvement > 0 THEN "STILL_IMPROVING"
    ELSE IF Abs(improvement) * 100 < Abs(f1) * VERDICT_PCT THEN "LARGELY_CONVERGED"
    ELSE "CONVERGED_EARLY"

VERDICT(f1, improvement) ==
    IF Abs(improvement) * 100 < Abs(f1) * VERDICT_PCT THEN "LARGELY_CONVERGED"
    ELSE IF improvement > 0 THEN "STILL_IMPROVING"
    ELSE "CONVERGED_EARLY"

ReportConvergence ==
    /\ pc = "report_convergence"
    /\ LET fit == Fitness(df)
           best_idx == IdxMin(fit)
           improvement == first_half_best.v - second_half_best.v
       IN  conv_report' =
             [ total        |-> Len(df),
               n_params     |-> Len(param_cols),
               best_eval    |-> df[best_idx].eval,
               best_fitness |-> df[best_idx].fitness,
               checkpoints  |-> [ j \in DOMAIN CHECKPOINTS |->
                                    [ at |-> CHECKPOINTS[j],
                                      best |-> BestSoFarAt(CHECKPOINTS[j]) ] ],
               first_half_best  |-> first_half_best.v,
               second_half_best |-> second_half_best.v,
               improvement  |-> improvement,
               last20_best  |-> SeriesMin(fit, Last20),
               prev20_best  |-> SeriesMin(fit, NegSliceIdx(Len(df), 2 * TAIL_N, TAIL_N)),
               verdict      |-> VERDICT(first_half_best.v, improvement) ]
    /\ printed' = Append(printed, "1. CONVERGENCE")
    /\ pc' = "report_survival"
    /\ UNCHANGED << df, param_cols, error, saved, best_so_far, likely_hit_cap,
                    conv_df, top_df, new_plotted, surv_report, param_report,
                    new_report, best_report >>

\* The four slices of "Survival by quartile of evaluations".
QuartileSlice(q) == ISliceIdx(Len(df), (q - 1) * QUARTER_N, q * QUARTER_N)

CapHits(I) == Cardinality({ i \in I : df[i].fitness <= -MAX_TICKS })

\* chunk['approx_survival_sec'].mean() is sum(-fitness) * DT / (1.1 * len):
\* held as the sum and the count; NaN over zero records.
\* 100 * n_cap / len(chunk) is NaN over zero records (numpy 0 / 0).
QuartileLine(q) ==
    LET I == QuartileSlice(q)
    IN  [ n        |-> Cardinality(I),
          n_cap    |-> CapHits(I),
          surv_sum |-> SumOver([ i \in I |-> -df[i].fitness ], I),
          mean_nan |-> I = {},
          rate_nan |-> I = {} ]

ReportSurvival ==
    /\ pc = "report_survival"
    /\ surv_report' =
         [ n_hit_cap_conservative |-> CapHits(DOMAIN df),
           n_hit_cap_generous |->
               Cardinality({ i \in DOMAIN df : df[i].fitness <= -MAX_TICKS_GENEROUS }),
           total |-> Len(df),
           quartiles |-> [ q \in 1..4 |-> QuartileLine(q) ] ]
    /\ printed' = Append(printed, "2. SURVIVAL ANALYSIS")
    /\ pc' = "report_params"
    /\ UNCHANGED << df, param_cols, error, saved, best_so_far, likely_hit_cap,
                    conv_df, top_df, new_plotted, conv_report, param_report,
                    new_report, best_report >>

\* conv_df[conv_df['status'].str.startswith(w)] and .str.contains('hitting')
StartsWith(w) == { j \in DOMAIN conv_df : conv_df[j].status[1] = w }
Hitting == { j \in DOMAIN conv_df : Len(conv_df[j].status) > 1 }

ReportParameters ==
    /\ pc = "report_params"
    /\ param_report' =
         [ converged     |-> StartsWith("converged"),
           narrowing     |-> StartsWith("narrowing"),
           exploring     |-> StartsWith("exploring"),
           hitting_bound |-> Hitting ]
    /\ printed' = printed \o << "3. PARAMETER CONVERGENCE",
                                "4. PARAMETER CORRELATIONS WITH FITNESS" >>
    /\ pc' = "report_new"
    /\ UNCHANGED << df, param_cols, error, saved, best_so_far, likely_hit_cap,
                    conv_df, top_df, new_plotted, conv_report, surv_report,
                    new_report, best_report >>

\* row = conv_df[conv_df['param'] == p].iloc[0]; every new parameter has a
\* row here, section 5 having stopped the run otherwise.
ReportNewParams ==
    /\ pc = "report_new"
    /\ \A j \in DOMAIN NEW_PARAMS : \E h \in DOMAIN conv_df : conv_df[h].param = NEW_PARAMS[j]
    /\ new_report' =
         [ j \in DOMAIN NEW_PARAMS |->
             LET p == NEW_PARAMS[j]
                 h == CHOOSE h \in DOMAIN conv_df :
                        /\ conv_df[h].param = p
                        /\ \A g \in DOMAIN conv_df : conv_df[g].param = p => h <= g
             IN  [ param   |-> p,
                   bounds  |-> BOUNDS[p],
                   default |-> DEFAULTS[p],
                   best    |-> conv_df[h].best,
                   mean    |-> conv_df[h].last20_mean,
                   status  |-> conv_df[h].status ] ]
    /\ printed' = Append(printed, "5. NEW EXP10 PARAMETERS")
    /\ pc' = "report_best"
    /\ UNCHANGED << df, param_cols, error, saved, best_so_far, likely_hit_cap,
                    conv_df, top_df, new_plotted, conv_report, surv_report,
                    param_report, best_report >>

\* implied_quality = min(max((-best_fitness / MAX_TICKS - 1.0) / 0.2, 0), 1),
\* as a fraction of MAX_TICKS.
ImpliedQuality(best_fitness) ==
    MinI(MaxI(5 * (-best_fitness - MAX_TICKS), 0), MAX_TICKS)

ReportBest ==
    /\ pc = "report_best"
    /\ LET best_idx == IdxMin(Fitness(df))
           best_fitness == df[best_idx].fitness
       IN  best_report' =
             [ eval    |-> df[best_idx].eval,
               fitness |-> best_fitness,
               hit_cap |-> -best_fitness >= MAX_TICKS,
               implied_quality |->
                   IF -best_fitness >= MAX_TICKS
                   THEN ImpliedQuality(best_fitness) ELSE 0,
               values  |-> [ j \in DOMAIN param_cols |-> df[best_idx].par[param_cols[j]] ] ]
    /\ printed' = Append(printed, "6. BEST CONFIG SUMMARY")
    /\ pc' = "done"
    /\ UNCHANGED << df, param_cols, error, saved, best_so_far, likely_hit_cap,
                    conv_df, top_df, new_plotted, conv_report, surv_report,
                    param_report, new_report >>

-----------------------------------------------------------------------------

Next ==
    \/ ConvergencePlot
    \/ SurvivalAnalysis
    \/ ParameterConvergence
    \/ ParameterConvergenceKeyError
    \/ Correlations
    \/ NewParams
    \/ NewParamsKeyError
    \/ ReportConvergence
    \/ ReportSurvival
    \/ ReportParameters
    \/ ReportNewParams
    \/ ReportBest

Spec == Init /\ [][Next]_vars


-----------------------------------------------------------------------------
(* Properties *)

Classified == pc \in { "correlations", "new_params", "report_convergence",
                       "report_survival", "report_params", "report_new",
                       "report_best", "done" }
           \/ (pc = "failed" /\ UnknownCols = {})

Correlated == Classified /\ pc # "correlations"

ReportedConvergence == pc \in { "report_survival", "report_params",
                                "report_new", "report_best", "done" }

ReportedSurvival == pc \in { "report_params", "report_new", "report_best", "done" }

\* The size of each half as the verdict rule states it.
HalfSize(n) == IF n >= 2 * HALF_N THEN HALF_N ELSE n \div 2

\* C1: the convergence verdict compares the minimum of the first h records
\* with the minimum of the last h records, h = 100 for a log of 200 records
\* or more and h = len / 2 below that, and improvement is their difference.
\* (Stated for len >= 2: a half of a one-record log is empty.)
C1_HalfSplit ==
    (ReportedConvergence /\ Len(df) >= 2) =>
        LET n == Len(df)
            h == HalfSize(n)
            f1 == SeriesMin(Fitness(df), 1..h).v
            f2 == SeriesMin(Fitness(df), (n - h + 1)..n).v
        IN  /\ conv_report.first_half_best = f1
            /\ conv_report.second_half_best = f2
            /\ conv_report.improvement = f1 - f2

\* C2: the verdict is LARGELY_CONVERGED exactly when |f1 - f2| is below 2% of
\* |f1|, otherwise STILL_IMPROVING exactly when f1 - f2 > 0, otherwise
\* CONVERGED_EARLY; with f1 = 0 it is never LARGELY_CONVERGED.
C2_Verdict ==
    ReportedConvergence =>
        LET f1 == conv_report.first_half_best
            f2 == conv_report.second_half_best
            within == 50 * Abs(f1 - f2) < Abs(f1)
            v == conv_report.verdict
        IN  /\ v \in { "LARGELY_CONVERGED", "STILL_IMPROVING", "CONVERGED_EARLY" }
            /\ (v = "LARGELY_CONVERGED") <=> within
            /\ (v = "STILL_IMPROVING") <=> (~within /\ f1 > f2)
            /\ (v = "CONVERGED_EARLY") <=> (~within /\ f1 <= f2)
            /\ (f1 = 0) => (v # "LARGELY_CONVERGED")

\* C2 witness: the second half found a smaller minimum, inside the 2% band:
\* the band decides, not the sign.
C2_Witness ==
    /\ ReportedConvergence
    /\ conv_report.first_half_best > conv_report.second_half_best
    /\ conv_report.verdict = "LARGELY_CONVERGED"

\* C3: whatever order the rows arrive in, the analysis sees them by eval
\* ascending: the best record is, among the records of minimum fitness, the
\* one of smallest eval, and the tail(20) window holds the records of largest
\* eval.
C3_SortedByEval ==
    /\ Classified =>
         \A i \in Last20 : \A j \in (DOMAIN df) \ Last20 : df[i].eval > df[j].eval
    /\ ReportedConvergence =>
         \A i \in DOMAIN df :
            /\ conv_report.best_fitness <= df[i].fitness
            /\ df[i].fitness = conv_report.best_fitness
                  => conv_report.best_eval <= df[i].eval

TopRows == Range(top_df)

\* C4 as claimed: the best-quantile subset holds max(1, ceil(0.2 * len))
\* records, those of smallest fitness, a tie at the cut going to the smaller
\* eval.
C4_TopCeil ==
    Correlated =>
        /\ Len(top_df) = MaxI(1, (Len(df) + 4) \div 5)
        /\ Cardinality(TopRows) = Len(top_df)
        /\ \A i \in TopRows : \A j \in (DOMAIN df) \ TopRows :
              \/ df[i].fitness < df[j].fitness
              \/ df[i].fitness = df[j].fitness /\ df[i].eval < df[j].eval

\* C4 as amended: the best-quantile subset holds max(1, floor(0.2 * len))
\* records, those of smallest fitness, a tie at the cut going to the record
\* that comes first in the log.
C4_TopFloor ==
    Correlated =>
        /\ Len(top_df) = MaxI(1, Len(df) \div 5)
        /\ Cardinality(TopRows) = Len(top_df)
        /\ \A i \in TopRows : \A j \in (DOMAIN df) \ TopRows :
              \/ df[i].fitness < df[j].fitness
              \/ df[i].fitness = df[j].fitness /\ i < j

\* C4 witness: a log whose length is not a multiple of 5, with a tie at the
\* cut resolved between a record kept and a record left out.
C4_Witness ==
    /\ Correlated
    /\ Len(df) > 5
    /\ Len(df) % 5 # 0
    /\ \E i \in TopRows : \E j \in (DOMAIN df) \ TopRows :
          df[i].fitness = df[j].fitness

\* C5: a log of one record gives std20 = 0, normStd = 0 and the base status
\* CONVERGED for every parameter; no base status is chosen from a NaN normStd.
C5_SingleRecordStd ==
    Classified =>
        \A j \in DOMAIN conv_df :
            /\ ~conv_df[j].norm_std.nan
            /\ Len(df) = 1 =>
                  /\ ~conv_df[j].last20_std.nan
                  /\ conv_df[j].last20_std.sq = 0
                  /\ conv_df[j].status[1] = "converged"

\* The bound-hug flag a status carries.
HugFlag(status) == IF Len(status) > 1 THEN status[2] ELSE "NONE"

\* C6: the bound-hug flag depends on mean20 alone: HITTING_MIN when mean20 is
\* within 5% of the range of the lower bound, else HITTING_MAX when it is
\* within 5% of the range of the upper bound, else NONE, under each of the
\* three base statuses; at most one flag is reported.
C6_BoundHug ==
    Classified =>
        \A j \in DOMAIN conv_df :
            LET m == conv_df[j].last20_mean
                st == conv_df[j].status
                atMin == 20 * m.num <= Grid * m.den
                atMax == 20 * m.num >= 19 * Grid * m.den
            IN  /\ Len(st) \in { 1, 2 }
                /\ st[1] \in { "converged", "narrowing", "exploring" }
                /\ HugFlag(st) = IF atMin THEN "hitting MIN"
                                 ELSE IF atMax THEN "hitting MAX"
                                 ELSE "NONE"

\* C6 witness: a parameter still exploring whose tail mean sits on the lower
\* margin, and one that is converged there.
C6_Witness ==
    /\ Classified
    /\ \E j \in DOMAIN conv_df : conv_df[j].status = << "exploring", "hitting MIN" >>
    /\ \E j \in DOMAIN conv_df :
          /\ conv_df[j].status[1] # "converged"
          /\ HugFlag(conv_df[j].status) # "NONE"

\* C7: a best-so-far checkpoint is reported for the counts 50, 100, 150, 200
\* that do not exceed the log length only, each the minimum fitness of the
\* first c records.
C7_Checkpoints ==
    ReportedConvergence =>
        \A j \in DOMAIN conv_report.checkpoints :
            LET cp == conv_report.checkpoints[j]
            IN  /\ cp.at <= Len(df)
                /\ cp.best = SeriesMin(Fitness(df), 1..cp.at)

\* C8: the four buckets partition the log: their record counts sum to len,
\* their cap-hit counts sum to the overall cap-hit count, and no bucket is
\* empty.
C8_Quarters ==
    ReportedSurvival =>
        LET Q == surv_report.quartiles
        IN  /\ Q[1].n + Q[2].n + Q[3].n + Q[4].n = Len(df)
            /\ Q[1].n_cap + Q[2].n_cap + Q[3].n_cap + Q[4].n_cap
                  = surv_report.n_hit_cap_conservative
            /\ \A q \in DOMAIN Q : Q[q].n > 0 /\ ~Q[q].mean_nan /\ ~Q[q].rate_nan

\* C9: a log with a column the registry does not hold fails before anything is
\* computed, saved or printed.
C9_FailFast ==
    UnknownCols # {} =>
        /\ saved = {}
        /\ printed = << >>
        /\ best_so_far = << >>
        /\ likely_hit_cap = << >>
        /\ pc \in { "convergence_plot", "failed" }

\* C10: a registry parameter without a column in the log raises no error: a
\* log whose columns are all registry parameters never fails.
C10_MissingTolerated ==
    UnknownCols = {} => (pc # "failed" /\ error = "none")


PlottedConvergence == pc # "convergence_plot"

\* C11: the best-so-far series is as long as the log, its element i is the
\* minimum fitness of the records up to i, it never increases, and its last
\* element is the fitness of the best record of the report.
C11_BestSoFar ==
    /\ PlottedConvergence =>
         /\ Len(best_so_far) = Len(df)
         /\ \A i \in DOMAIN df :
               best_so_far[i] = SeriesMin(Fitness(df), 1..i).v
         /\ \A i \in 1..(Len(df) - 1) : best_so_far[i + 1] <= best_so_far[i]
    /\ ReportedConvergence =>
         best_so_far[Len(df)] = conv_report.best_fitness

\* C11 witness: a reported log whose running minimum drops after the first
\* record and stays below a later, worse record.
C11_Witness ==
    /\ ReportedConvergence
    /\ best_so_far[Len(df)] < best_so_far[1]
    /\ \E i \in DOMAIN df : best_so_far[i] < df[i].fitness


====
